---------------------------- MODULE Spec2Model ----------------------------
(***************************************************************************)
(* Model of the static-analysis core of Codebase Genius:                   *)
(*   BE/py_helpers/parse_code.py  (parse_python_file, get_name_from_node,  *)
(*                                 scan_repo_for_python, build_call_graph) *)
(*   BE/main.py                   (CodebaseGenius.run and its steps)       *)
(*   BE/py_helpers/clone_repo.py  (clone_repo, list_files, read_readme)    *)
(*   BE/py_helpers/make_diagram.py (make_function_call_graph)              *)
(*                                                                         *)
(* A source file is an abstract syntax tree of records; ast.walk is the    *)
(* breadth-first traversal of that tree.  A Python dict is a sequence of   *)
(* key/value records in insertion order.  A dotted name is a string.       *)
(***************************************************************************)
EXTENDS Integers, Sequences, FiniteSets, TLC

VARIABLES
    root,                \* what the path handed to the scan is: "dir", "file", "missing"
    fs,                  \* the files below the root (a fixed snapshot)
    pc,                  \* position of CodebaseGenius.run / analyze_code
    stack,               \* os.walk: directories still to be visited, next first
    results,             \* scan_repo_for_python: results (dict, insertion order)
    function_locations,  \* build_call_graph: function_locations (dict)
    edges,               \* build_call_graph: edges (list)
    repo_data,           \* CodebaseGenius.repo_data (dict as a record of present keys)
    run,                 \* how many times analyze_code has been invoked
    prev,                \* repo_data as the previous invocation left it
    clone_result,        \* clone_repository: what clone_repo returned last
    diagram,             \* generate_documentation: the graph drawn and the result returned
    docs                 \* generate_documentation: the text written to docs.md

vars == <<root, fs, pc, stack, results, function_locations, edges, repo_data, run, prev,
          clone_result, diagram, docs>>

----------------------------------------------------------------------------
(* Bounds *)

MaxFiles == 3      \* files in the tree
MaxCalls == 3      \* calls of bar in the body of foo
MaxDepth == 3      \* nesting depth of a callee expression
MaxRuns  == 2      \* invocations of analyze_code on the same tree
MaxEdges == 3      \* edges in a list handed to make_function_call_graph directly

----------------------------------------------------------------------------
(* Syntax trees (the node kinds of module ast the parser looks at).  Stmt   *)
(* is a statement that holds one expression (ast.Expr, ast.Return); Other  *)
(* is any expression the name extraction has no case for.  Arguments,      *)
(* annotations and docstrings, which no edge depends on, are left out; a   *)
(* missing alias (None) is the empty string.                               *)

Name(id) == [kind |-> "Name", id |-> id]
Attribute(value, attr) == [kind |-> "Attribute", value |-> value, attr |-> attr]
Call(func, lineno) == [kind |-> "Call", func |-> func, lineno |-> lineno]
Other == [kind |-> "Other"]
Stmt(value) == [kind |-> "Stmt", value |-> value]
FunctionDef(name, lineno, body, decorator_list) ==
    [kind |-> "FunctionDef", name |-> name, lineno |-> lineno,
     body |-> body, decorator_list |-> decorator_list]
ClassDef(name, lineno, bases, body) ==
    [kind |-> "ClassDef", name |-> name, lineno |-> lineno,
     bases |-> bases, body |-> body]
Import(module, asname, lineno) ==
    [kind |-> "Import", module |-> module, asname |-> asname, lineno |-> lineno]
ImportFrom(module, name, asname, lineno) ==
    [kind |-> "ImportFrom", module |-> module, name |-> name, asname |-> asname,
     lineno |-> lineno]
Module(body) == [kind |-> "Module", body |-> body]

\* ast.iter_child_nodes: the child nodes in field order
iter_child_nodes(node) ==
    CASE node.kind = "Module"      -> node.body
      [] node.kind = "FunctionDef" -> node.body \o node.decorator_list
      [] node.kind = "ClassDef"    -> node.bases \o node.body
      [] node.kind = "Stmt"        -> <<node.value>>
      [] node.kind = "Call"        -> <<node.func>>
      [] node.kind = "Attribute"   -> <<node.value>>
      [] OTHER                     -> <<>>

\* ast.walk: breadth-first, the node itself first
RECURSIVE walk_queue(_, _)
walk_queue(todo, acc) ==
    IF todo = <<>> THEN acc
    ELSE walk_queue(Tail(todo) \o iter_child_nodes(Head(todo)), Append(acc, Head(todo)))

walk(tree) == walk_queue(<<tree>>, <<>>)

----------------------------------------------------------------------------
(* parse_code.py: name extraction *)

\* as get_name_from_node, but a call used as a callee does not resolve
RECURSIVE get_name_from_node_no_call(_)
get_name_from_node_no_call(node) ==
    IF node.kind = "Name" THEN node.id
    ELSE IF node.kind = "Attribute" THEN
        LET value == get_name_from_node_no_call(node.value)
        IN  IF value # "" THEN value \o "." \o node.attr ELSE node.attr
    ELSE ""

RECURSIVE get_name_from_node(_)
get_name_from_node(node) ==
    IF node.kind = "Name" THEN node.id
    ELSE IF node.kind = "Attribute" THEN
        LET value == get_name_from_node(node.value)
        IN  IF value # "" THEN value \o "." \o node.attr ELSE node.attr
    ELSE IF node.kind = "Call" THEN get_name_from_node(node.func)
    ELSE ""

get_decorator_name(node) ==
    IF node.kind = "Name" THEN node.id
    ELSE IF node.kind = "Call" THEN get_name_from_node(node.func)
    ELSE "<ast." \o node.kind \o " object>"

----------------------------------------------------------------------------
(* parse_code.py: parse_python_file *)

MapSeq(s, Op(_)) == [i \in 1..Len(s) |-> Op(s[i])]

function_entry(node) ==
    [name |-> node.name, lineno |-> node.lineno,
     decorators |-> MapSeq(node.decorator_list, get_decorator_name)]

class_entry(node) ==
    [name |-> node.name, lineno |-> node.lineno,
     bases |-> SelectSeq(MapSeq(node.bases, get_name_from_node), LAMBDA b : b # ""),
     methods |-> MapSeq(SelectSeq(node.body, LAMBDA item : item.kind = "FunctionDef"),
                        LAMBDA item : item.name)]

\* as call_entry, but an attribute access is recorded under its last name
call_entry_last_name(node) ==
    [func |-> IF node.func.kind = "Attribute" THEN node.func.attr
              ELSE get_name_from_node(node.func),
     lineno |-> node.lineno]

call_entry(node) == [func |-> get_name_from_node(node.func), lineno |-> node.lineno]

import_entry(node) ==
    [module |-> IF node.kind = "Import" THEN node.module
                ELSE node.module \o "." \o node.name,
     alias |-> node.asname, lineno |-> node.lineno]

\* A file on disk: unreadable, text that is not Python, or the tree of its text
Unreadable == [kind |-> "unreadable"]
BadSyntax == [kind |-> "syntax_error"]
Source(tree) == [kind |-> "source", tree |-> tree]

\* as parse_python_file, but class definitions are recorded as functions too
parse_python_file_classes_as_functions(src) ==
    IF src.kind = "syntax_error" THEN
        [success |-> FALSE, error |-> "Syntax error: invalid syntax"]
    ELSE IF src.kind = "unreadable" THEN
        [success |-> FALSE, error |-> "Parse error: Permission denied"]
    ELSE
        LET nodes == walk(src.tree)
        IN  [success   |-> TRUE,
             functions |-> MapSeq(SelectSeq(nodes, LAMBDA n : n.kind \in {"FunctionDef", "ClassDef"}),
                                  LAMBDA n : [name |-> n.name, lineno |-> n.lineno, decorators |-> <<>>]),
             classes   |-> MapSeq(SelectSeq(nodes, LAMBDA n : n.kind = "ClassDef"),
                                  class_entry),
             calls     |-> SelectSeq(MapSeq(SelectSeq(nodes, LAMBDA n : n.kind = "Call"),
                                            call_entry),
                                     LAMBDA c : c.func # ""),
             imports   |-> MapSeq(SelectSeq(nodes, LAMBDA n : n.kind \in {"Import", "ImportFrom"}),
                                  import_entry)]

\* as parse_python_file, but a failure carries empty lists next to its error
parse_python_file_lists_on_failure(src) ==
    IF src.kind \in {"syntax_error", "unreadable"} THEN
        [success |-> FALSE, error |-> "Parse error", functions |-> <<>>, classes |-> <<>>,
         calls |-> <<>>, imports |-> <<>>]
    ELSE
        LET nodes == walk(src.tree)
        IN  [success   |-> TRUE,
             functions |-> MapSeq(SelectSeq(nodes, LAMBDA n : n.kind = "FunctionDef"),
                                  function_entry),
             classes   |-> MapSeq(SelectSeq(nodes, LAMBDA n : n.kind = "ClassDef"),
                                  class_entry),
             calls     |-> SelectSeq(MapSeq(SelectSeq(nodes, LAMBDA n : n.kind = "Call"),
                                            call_entry),
                                     LAMBDA c : c.func # ""),
             imports   |-> MapSeq(SelectSeq(nodes, LAMBDA n : n.kind \in {"Import", "ImportFrom"}),
                                  import_entry)]

parse_python_file(src) ==
    IF src.kind = "syntax_error" THEN
        [success |-> FALSE, error |-> "Syntax error: invalid syntax"]
    ELSE IF src.kind = "unreadable" THEN
        [success |-> FALSE, error |-> "Parse error: Permission denied"]
    ELSE
        LET nodes == walk(src.tree)
        IN  [success   |-> TRUE,
             functions |-> MapSeq(SelectSeq(nodes, LAMBDA n : n.kind = "FunctionDef"),
                                  function_entry),
             classes   |-> MapSeq(SelectSeq(nodes, LAMBDA n : n.kind = "ClassDef"),
                                  class_entry),
             calls     |-> SelectSeq(MapSeq(SelectSeq(nodes, LAMBDA n : n.kind = "Call"),
                                            call_entry),
                                     LAMBDA c : c.func # ""),
             imports   |-> MapSeq(SelectSeq(nodes, LAMBDA n : n.kind \in {"Import", "ImportFrom"}),
                                  import_entry)]

----------------------------------------------------------------------------
(* Python dict: key/value records in insertion order *)

dict_keys(d) == {d[i].key : i \in 1..Len(d)}

dict_get(d, k) == d[CHOOSE i \in 1..Len(d) : d[i].key = k].value

\* d[k] = v: an existing key keeps its place, a new key goes last
dict_set(d, k, v) ==
    IF k \in dict_keys(d)
    THEN [i \in 1..Len(d) |-> IF d[i].key = k THEN [key |-> k, value |-> v] ELSE d[i]]
    ELSE Append(d, [key |-> k, value |-> v])

----------------------------------------------------------------------------
(* parse_code.py: scan_repo_for_python *)

ignore_dirs == {".git", "node_modules", "__pycache__", "venv", ".venv", "dist", "build"}

\* A file of the tree: the directories from the root down, its name, its content.
\* The tree holds plain directories and files only (no symbolic links).
File(dir, stem, ext, src) == [dir |-> dir, stem |-> stem, ext |-> ext, src |-> src]

filename(f) == f.stem \o "." \o f.ext

endswith_py(f) == f.ext = "py"

\* os.path.relpath(os.path.join(dirpath, filename), root), as its components
rel_path(dirpath, f) == Append(dirpath, filename(f))

IsPrefix(p, q) == Len(p) <= Len(q) /\ SubSeq(q, 1, Len(p)) = p

\* what os.scandir finds in a directory
subdirs_of(tree, dirpath) ==
    {f.dir[Len(dirpath) + 1] : f \in {g \in tree : IsPrefix(dirpath, g.dir) /\ Len(g.dir) > Len(dirpath)}}

files_of(tree, dirpath) == {f \in tree : f.dir = dirpath}

\* as prune, but nothing is skipped
prune_nothing(dirnames) == dirnames

\* dirnames[:] = [d for d in dirnames if d not in ignore_dirs]
prune(dirnames) == SelectSeq(dirnames, LAMBDA d : d \notin ignore_dirs)

\* the orders in which a directory listing may come back
Listings(S) == {s \in [1..Cardinality(S) -> S] : \A i, j \in 1..Cardinality(S) : s[i] = s[j] => i = j}

\* as scan_files, but a file that fails to parse ends the loop
RECURSIVE scan_files_abort(_, _, _)
scan_files_abort(res, dirpath, filenames) ==
    IF filenames = <<>> THEN res
    ELSE LET f == Head(filenames)
         IN  IF endswith_py(f) /\ ~parse_python_file(f.src).success THEN res
             ELSE scan_files_abort(IF endswith_py(f)
                                   THEN dict_set(res, rel_path(dirpath, f), parse_python_file(f.src))
                                   ELSE res,
                                   dirpath, Tail(filenames))

\* the inner loop: for filename in filenames
RECURSIVE scan_files(_, _, _)
scan_files(res, dirpath, filenames) ==
    IF filenames = <<>> THEN res
    ELSE LET f == Head(filenames)
             next == IF endswith_py(f)
                     THEN dict_set(res, rel_path(dirpath, f), parse_python_file(f.src))
                     ELSE res
         IN  scan_files(next, dirpath, Tail(filenames))

----------------------------------------------------------------------------
(* parse_code.py: build_call_graph *)

\* the first loop: function_locations[func_name] = file_path
RECURSIVE locate_functions(_, _, _)
locate_functions(locs, file_path, functions) ==
    IF functions = <<>> THEN locs
    ELSE locate_functions((Head(functions).name :> file_path) @@ locs, file_path, Tail(functions))

RECURSIVE build_function_locations(_, _)
build_function_locations(locs, items) ==
    IF items = <<>> THEN locs
    ELSE LET data == Head(items).value
             next == IF data.success
                     THEN locate_functions(locs, Head(items).key, data.functions)
                     ELSE locs
         IN  build_function_locations(next, Tail(items))

\* as edges_of_calls, but a pair already in the list is not added again
RECURSIVE edges_of_calls_once(_, _, _, _)
edges_of_calls_once(acc, caller, calls, locs) ==
    IF calls = <<>> THEN acc
    ELSE LET callee == Head(calls).func
             next == IF caller # "" /\ callee \in DOMAIN locs
                        /\ \A i \in 1..Len(acc) : acc[i] # <<caller, callee>>
                     THEN Append(acc, <<caller, callee>>)
                     ELSE acc
         IN  edges_of_calls_once(next, caller, Tail(calls), locs)

\* as edges_of_calls, but without the test that the callee is declared
RECURSIVE edges_of_calls_unchecked(_, _, _, _)
edges_of_calls_unchecked(acc, caller, calls, locs) ==
    IF calls = <<>> THEN acc
    ELSE LET callee == Head(calls).func
             next == IF caller # ""
                     THEN Append(acc, <<caller, callee>>)
                     ELSE acc
         IN  edges_of_calls_unchecked(next, caller, Tail(calls), locs)

\* the innermost loop: for call in data.get("calls", [])
RECURSIVE edges_of_calls(_, _, _, _)
edges_of_calls(acc, caller, calls, locs) ==
    IF calls = <<>> THEN acc
    ELSE LET callee == Head(calls).func
             next == IF caller # "" /\ callee \in DOMAIN locs
                     THEN Append(acc, <<caller, callee>>)
                     ELSE acc
         IN  edges_of_calls(next, caller, Tail(calls), locs)

\* as edges_of_functions, but only the first function of the file is a caller
edges_of_functions_first_only(acc, functions, calls, locs) ==
    IF functions = <<>> THEN acc
    ELSE edges_of_calls(acc, Head(functions).name, calls, locs)

\* for func in data.get("functions", [])
RECURSIVE edges_of_functions(_, _, _, _)
edges_of_functions(acc, functions, calls, locs) ==
    IF functions = <<>> THEN acc
    ELSE edges_of_functions(edges_of_calls(acc, Head(functions).name, calls, locs),
                            Tail(functions), calls, locs)

\* as build_edges, but a callee is looked up among the functions of the
\* file that holds the call
RECURSIVE build_edges_same_file(_, _, _)
build_edges_same_file(acc, items, locs) ==
    IF items = <<>> THEN acc
    ELSE LET data == Head(items).value
             next == IF ~data.success THEN acc
                     ELSE edges_of_functions(acc, data.functions, data.calls,
                                             [n \in {data.functions[i].name : i \in 1..Len(data.functions)}
                                                 |-> Head(items).key])
         IN  build_edges_same_file(next, Tail(items), locs)

\* the second loop: for file_path, data in parse_results.items()
RECURSIVE build_edges(_, _, _)
build_edges(acc, items, locs) ==
    IF items = <<>> THEN acc
    ELSE LET data == Head(items).value
             next == IF ~data.success THEN acc
                     ELSE edges_of_functions(acc, data.functions, data.calls, locs)
         IN  build_edges(next, Tail(items), locs)

EmptyDict == [n \in {} |-> <<>>]

----------------------------------------------------------------------------
(* clone_repo.py *)

RepoName == "repo"
RepoPath == "/tmp/cbg_x/repo"

\* clone_repo(url): the clone succeeds or GitPython raises
clone_repo(cloned) ==
    IF cloned THEN [path |-> RepoPath, name |-> RepoName, success |-> TRUE]
    ELSE [error |-> "Git clone failed: exit code(128)", success |-> FALSE]

list_ignore_dirs ==
    {".git", "node_modules", "__pycache__", "venv", ".venv", "dist", "build", ".pytest_cache"}

\* the names of the trees and of the functions below, in the order sorted()
\* puts them
ascii_order ==
    <<"Job", "README.md", "a.py", "b.py", "bar", "build", "c.py", "e.py", "f.py", "foo",
      "pkg", "run", "venv">>

sorted(names) == SelectSeq(ascii_order, LAMBDA n : n \in names)

\* the directories list_files visits: those with no ignored name on their path
listed_dirs(tree) ==
    {d \in UNION {{SubSeq(f.dir, 1, k) : k \in 0..Len(f.dir)} : f \in tree} \cup {<<>>} :
        \A i \in 1..Len(d) : d[i] \notin list_ignore_dirs}

\* the orders os.walk may visit them in: a directory first, then all that is
\* below it, before its next sibling
walk_orders(D) ==
    {s \in Listings(D) :
        \A i, j, k \in 1..Len(s) :
            (i < j /\ j < k /\ IsPrefix(s[i], s[k])) => IsPrefix(s[i], s[j])}

list_files_entry(tree, dirpath) ==
    [path  |-> dirpath,
     files |-> sorted({filename(f) : f \in files_of(tree, dirpath)}),
     dirs  |-> sorted({d \in subdirs_of(tree, dirpath) : d \notin list_ignore_dirs})]

\* list_files(root), the directories visited in the given order
list_files(tree, order) == MapSeq(order, LAMBDA d : list_files_entry(tree, d))

readme_names == <<"README.md", "README.MD", "readme.md", "README.txt", "README.rst", "README">>

\* find_readme and read_readme: the first of the names found in the root
read_readme(tree) ==
    LET found == SelectSeq(readme_names,
                           LAMBDA n : \E f \in files_of(tree, <<>>) : filename(f) = n)
    IN  IF found = <<>> THEN [error |-> "No README found"]
        ELSE LET f == CHOOSE g \in files_of(tree, <<>>) : filename(g) = found[1]
             IN  IF f.src.kind = "unreadable"
                 THEN [error |-> "Failed to read README: Permission denied"]
                 ELSE [content |-> f.src, path |-> found[1], success |-> TRUE]

\* the text of a README: the title found in its first lines and the lines
\* that are no headings, joined
Text(title, paragraph) == [kind |-> "text", title |-> title, paragraph |-> paragraph]

\* summarize_readme (the cut at max_chars is left out)
summarize_readme(content) ==
    IF content.title # "" THEN content.title \o "\n\n" \o content.paragraph \o "..."
    ELSE content.paragraph \o "..."

----------------------------------------------------------------------------
(* make_diagram.py: make_function_call_graph *)

\* edge_counts[key] = edge_counts.get(key, 0) + 1, for every edge in turn
RECURSIVE count_edges(_, _)
count_edges(counts, es) ==
    IF es = <<>> THEN counts
    ELSE LET key == Head(es)
             n == IF key \in dict_keys(counts) THEN dict_get(counts, key) ELSE 0
         IN  count_edges(dict_set(counts, key, n + 1), Tail(es))

dot_edge(item) ==
    [caller |-> item.key[1], callee |-> item.key[2],
     label |-> IF item.value > 1 THEN ToString(item.value) ELSE ""]

\* as make_function_call_graph, but the edges reported are the edges drawn
make_function_call_graph_drawn_count(es, output_path, rendered) ==
    LET nodes == {es[i][1] : i \in 1..Len(es)} \cup {es[i][2] : i \in 1..Len(es)}
    IN  [dot_nodes |-> sorted(nodes),
         dot_edges |-> MapSeq(count_edges(<<>>, es), dot_edge),
         result |-> IF rendered
                    THEN [success |-> TRUE, path |-> output_path \o ".png",
                          nodes |-> Cardinality(nodes), edges |-> Len(count_edges(<<>>, es))]
                    ELSE [success |-> FALSE,
                          error |-> "Failed to create diagram: failed to execute dot"]]

\* the nodes and edges put into the Digraph, in the order dot.node and
\* dot.edge are called, and what is returned: the summary if dot.render
\* succeeds, the error if it raises
make_function_call_graph(es, output_path, rendered) ==
    LET nodes == {es[i][1] : i \in 1..Len(es)} \cup {es[i][2] : i \in 1..Len(es)}
    IN  [dot_nodes |-> sorted(nodes),
         dot_edges |-> MapSeq(count_edges(<<>>, es), dot_edge),
         result |-> IF rendered
                    THEN [success |-> TRUE, path |-> output_path \o ".png",
                          nodes |-> Cardinality(nodes), edges |-> Len(es)]
                    ELSE [success |-> FALSE,
                          error |-> "Failed to create diagram: failed to execute dot"]]

NoDiagram == [dot_nodes |-> <<>>, dot_edges |-> <<>>, result |-> [success |-> FALSE, error |-> ""]]

----------------------------------------------------------------------------
(* main.py: build_markdown (the listings of the sections File Structure and *)
(* Code Structure are left out)                                            *)

RECURSIVE sum_of(_)
sum_of(ns) == IF ns = <<>> THEN 0 ELSE Head(ns) + sum_of(Tail(ns))

dict_or(d, key, default) == IF key \in DOMAIN d THEN d[key] ELSE default

build_markdown(data) ==
    LET parsed == SelectSeq(dict_or(data, "parse_results", <<>>), LAMBDA item : item.value.success)
        total_files == sum_of(MapSeq(dict_or(data, "file_tree", <<>>), LAMBDA item : Len(item.files)))
        total_funcs == sum_of(MapSeq(parsed, LAMBDA item : Len(item.value.functions)))
        total_classes == sum_of(MapSeq(parsed, LAMBDA item : Len(item.value.classes)))
    IN  <<"# " \o data["name"] \o " - Documentation",
          "## Overview",
          dict_or(data, "readme_summary", "No description"),
          "## Repository Statistics",
          "- **Total Files:** " \o ToString(total_files),
          "- **Python Functions:** " \o ToString(total_funcs),
          "- **Python Classes:** " \o ToString(total_classes),
          "- **Call Relationships:** " \o ToString(Len(dict_or(data, "call_graph", <<>>))),
          "## File Structure",
          "## Code Structure">>
        \o (IF dict_or(data, "call_graph", <<>>) # <<>>
            THEN <<"## Function Call Graph", "![Call Graph](call_graph.png)">>
            ELSE <<>>)

----------------------------------------------------------------------------
(* The trees the scan is run on *)

\* function foo(a, b) { return bar(a) }   function bar(x) { return x }
SrcExample ==
    Source(Module(<<FunctionDef("foo", 1, <<Stmt(Call(Name("bar"), 2))>>, <<>>),
                    FunctionDef("bar", 3, <<Stmt(Name("x"))>>, <<>>)>>))

\* foo calls bar n times; bar is declared elsewhere, if at all
SrcRepeat(n) ==
    Source(Module(<<FunctionDef("foo", 1, [i \in 1..n |-> Stmt(Call(Name("bar"), 1 + i))], <<>>)>>))

\* bar alone, calling nothing
SrcBar == Source(Module(<<FunctionDef("bar", 1, <<Stmt(Name("x"))>>, <<>>)>>))

\* run calls a library function
SrcRun ==
    Source(Module(<<Import("os", "", 1),
                    FunctionDef("run", 2, <<Stmt(Call(Attribute(Name("os"), "getcwd"), 3))>>, <<>>)>>))

\* a class with a method run that calls self.bar(), a second run that calls
\* the class, and the module-level statement foo()()
SrcJob ==
    Source(Module(<<ClassDef("Job", 1, <<Name("Base")>>,
                             <<FunctionDef("run", 2, <<Stmt(Call(Attribute(Name("self"), "bar"), 3))>>, <<>>)>>),
                    FunctionDef("run", 4, <<Stmt(Call(Name("Job"), 5))>>, <<>>),
                    Stmt(Call(Call(Name("foo"), 6), 6))>>))

Sources == {BadSyntax, Unreadable, SrcExample, SrcBar, SrcRun, SrcJob} \cup {SrcRepeat(MaxCalls)}

\* where a Python file whose content varies may sit
PyLocations == {<<<<>>, "a">>, <<<<>>, "b">>, <<<<"pkg">>, "c">>}

ReadmeText == Text("Repo", "A sample repository.")

\* files the scan has to leave alone
OtherFiles ==
    {File(<<>>, "README", "md", ReadmeText),
     File(<<"pkg", "build">>, "e", "py", SrcExample),
     File(<<"venv", "pkg">>, "f", "py", SrcExample)}

Trees ==
    UNION {{{File(l[1], l[2], "py", c[l]) : l \in P} \cup Q : c \in [P -> Sources]} :
           <<P, Q>> \in {pq \in (SUBSET PyLocations) \X (SUBSET OtherFiles) :
                           Cardinality(pq[1]) + Cardinality(pq[2]) <= MaxFiles}}

----------------------------------------------------------------------------
(* The state machine *)

\* Either run() is about to be called on a fresh object for a repository, or
\* analyze_code is about to be called with a path that is not a directory
Init ==
    /\ root \in {"dir", "file", "missing"}
    /\ fs \in (IF root = "dir" THEN Trees ELSE {{}})
    /\ pc = (IF root = "dir" THEN "start" ELSE "idle")
    /\ stack = <<>>
    /\ results = <<>>
    /\ function_locations = EmptyDict
    /\ edges = <<>>
    /\ repo_data = (IF root = "dir" THEN EmptyDict ELSE ("path" :> RepoPath))
    /\ run = 0
    /\ prev = EmptyDict
    /\ clone_result = EmptyDict
    /\ diagram = NoDiagram
    /\ docs = <<>>

\* as CloneRepository, but run goes on to the next step after a failed clone
CloneRepository_unchecked ==
    /\ pc \in {"start", "returned"}
    /\ run < MaxRuns
    /\ diagram' = NoDiagram
    /\ \E cloned \in BOOLEAN :
          LET result == clone_repo(cloned)
          IN  /\ clone_result' = result
              /\ pc' = "cloned"
              /\ IF ~result.success
                 THEN UNCHANGED repo_data
                 ELSE repo_data' = ("path" :> result.path) @@ ("name" :> result.name) @@ repo_data
    /\ UNCHANGED <<root, fs, stack, results, function_locations, edges, run, prev, docs>>

\* run, step 1: clone_repository; if it returns False so does run. Nothing
\* has been drawn yet in this call of run
CloneRepository ==
    /\ pc \in {"start", "returned"}
    /\ run < MaxRuns
    /\ diagram' = NoDiagram
    /\ \E cloned \in BOOLEAN :
          LET result == clone_repo(cloned)
          IN  /\ clone_result' = result
              /\ IF ~result.success
                 THEN /\ pc' = "failed"
                      /\ UNCHANGED repo_data
                 ELSE /\ pc' = "cloned"
                      /\ repo_data' = ("path" :> result.path) @@ ("name" :> result.name) @@ repo_data
    /\ UNCHANGED <<root, fs, stack, results, function_locations, edges, run, prev, docs>>

\* run, step 2: map_file_tree
MapFileTree ==
    /\ pc = "cloned"
    /\ \E order \in walk_orders(listed_dirs(fs)) :
          repo_data' = ("file_tree" :> list_files(fs, order)) @@ repo_data
    /\ pc' = "mapped"
    /\ UNCHANGED <<root, fs, stack, results, function_locations, edges, run, prev,
                   clone_result, diagram, docs>>

\* run, step 3: analyze_readme
AnalyzeReadme ==
    /\ pc = "mapped"
    /\ LET readme_data == read_readme(fs)
       IN  repo_data' =
               ("readme_summary" :> IF "success" \in DOMAIN readme_data
                                    THEN summarize_readme(readme_data.content)
                                    ELSE "No README found") @@ repo_data
    /\ pc' = "readme"
    /\ UNCHANGED <<root, fs, stack, results, function_locations, edges, run, prev,
                   clone_result, diagram, docs>>

\* run, step 4: analyze_code is entered and scan_repo_for_python starts the
\* walk; os.walk of something that is not a directory yields nothing
StartScan ==
    /\ pc \in {"idle", "readme"}
    /\ run < MaxRuns
    /\ pc' = "walk"
    /\ run' = run + 1
    /\ prev' = repo_data
    /\ results' = <<>>
    /\ stack' = IF root = "dir" THEN << <<>> >> ELSE <<>>
    /\ function_locations' = EmptyDict
    /\ edges' = <<>>
    /\ UNCHANGED <<root, fs, repo_data, clone_result, diagram, docs>>

\* one iteration of "for dirpath, dirnames, filenames in os.walk(root)": the
\* listing comes back in an order of the file system's choosing
WalkStep ==
    /\ pc = "walk"
    /\ stack # <<>>
    /\ LET dirpath == Head(stack)
       IN  \E dirnames \in Listings(subdirs_of(fs, dirpath)),
              filenames \in Listings(files_of(fs, dirpath)) :
               LET kept == prune(dirnames)
               IN  /\ results' = scan_files(results, dirpath, filenames)
                   /\ stack' = MapSeq(kept, LAMBDA d : Append(dirpath, d)) \o Tail(stack)
    /\ UNCHANGED <<root, fs, pc, function_locations, edges, repo_data, run, prev,
                   clone_result, diagram, docs>>

\* the walk is over: scan_repo_for_python returns results
ScanReturn ==
    /\ pc = "walk"
    /\ stack = <<>>
    /\ repo_data' = ("parse_results" :> results) @@ repo_data
    /\ pc' = "scanned"
    /\ UNCHANGED <<root, fs, stack, results, function_locations, edges, run, prev,
                   clone_result, diagram, docs>>

\* build_call_graph fed with the results of a walk that may still be going on
BuildCallGraph_streaming ==
    /\ pc \in {"walk", "scanned"}
    /\ LET locs == build_function_locations(EmptyDict, results)
           call_graph == build_edges(<<>>, results, locs)
       IN  /\ function_locations' = locs
           /\ edges' = call_graph
           /\ repo_data' = ("call_graph" :> call_graph) @@ ("parse_results" :> results) @@ repo_data
    /\ pc' = "done"
    /\ UNCHANGED <<root, fs, stack, results, run, prev, clone_result, diagram, docs>>

\* as BuildCallGraph, but the entries of the files that failed are deleted
\* from parse_results on the way
BuildCallGraph_pruning ==
    /\ pc = "scanned"
    /\ LET parse_results == SelectSeq(repo_data["parse_results"], LAMBDA item : item.value.success)
           locs == build_function_locations(EmptyDict, parse_results)
           call_graph == build_edges(<<>>, parse_results, locs)
       IN  /\ function_locations' = locs
           /\ edges' = call_graph
           /\ repo_data' = ("call_graph" :> call_graph) @@ ("parse_results" :> parse_results) @@ repo_data
    /\ pc' = "done"
    /\ UNCHANGED <<root, fs, stack, results, run, prev, clone_result, diagram, docs>>

\* build_call_graph(parse_results) and the rest of analyze_code
BuildCallGraph ==
    /\ pc = "scanned"
    /\ LET parse_results == repo_data["parse_results"]
           locs == build_function_locations(EmptyDict, parse_results)
           call_graph == build_edges(<<>>, parse_results, locs)
       IN  /\ function_locations' = locs
           /\ edges' = call_graph
           /\ repo_data' = ("call_graph" :> call_graph) @@ repo_data
    /\ pc' = "done"
    /\ UNCHANGED <<root, fs, stack, results, run, prev, clone_result, diagram, docs>>

\* as GenerateDocumentation, but when dot.render fails docs.md is not written
\* and docs_path is not set
GenerateDocumentation_unabsorbed ==
    /\ pc = "done"
    /\ "name" \in DOMAIN repo_data
    /\ LET output_path == "./outputs/" \o repo_data["name"]
           markdown == build_markdown(repo_data)
       IN  IF repo_data["call_graph"] # <<>>
           THEN \E rendered \in BOOLEAN :
                   /\ diagram' = make_function_call_graph(repo_data["call_graph"],
                                                          output_path \o "/call_graph", rendered)
                   /\ IF rendered
                      THEN /\ docs' = markdown
                           /\ repo_data' = ("docs_path" :> output_path \o "/docs.md") @@ repo_data
                      ELSE UNCHANGED <<docs, repo_data>>
           ELSE /\ diagram' = NoDiagram
                /\ docs' = markdown
                /\ repo_data' = ("docs_path" :> output_path \o "/docs.md") @@ repo_data
    /\ pc' = "returned"
    /\ UNCHANGED <<root, fs, stack, results, function_locations, edges, run, prev, clone_result>>

\* run, step 5: generate_documentation, after which run returns True; the
\* diagram is drawn only for a call graph that is not empty, and dot.render
\* may fail
GenerateDocumentation ==
    /\ pc = "done"
    /\ "name" \in DOMAIN repo_data
    /\ LET output_path == "./outputs/" \o repo_data["name"]
           markdown == build_markdown(repo_data)
       IN  /\ IF repo_data["call_graph"] # <<>>
              THEN \E rendered \in BOOLEAN :
                       diagram' = make_function_call_graph(repo_data["call_graph"],
                                                           output_path \o "/call_graph", rendered)
              ELSE diagram' = NoDiagram
           /\ docs' = markdown
           /\ repo_data' = ("docs_path" :> output_path \o "/docs.md") @@ repo_data
    /\ pc' = "returned"
    /\ UNCHANGED <<root, fs, stack, results, function_locations, edges, run, prev, clone_result>>

Next ==
    \/ CloneRepository
    \/ MapFileTree
    \/ AnalyzeReadme
    \/ StartScan
    \/ WalkStep
    \/ ScanReturn
    \/ BuildCallGraph
    \/ GenerateDocumentation

Spec == Init /\ [][Next]_vars

----------------------------------------------------------------------------
(* A second family of trees: one file, one function, one call whose callee *)
(* is any expression of bounded depth                                      *)

Ids == {"foo", "obj"}
Attrs == {"method", "foo"}

RECURSIVE Exprs(_)
Exprs(d) ==
    IF d = 0 THEN {Name(i) : i \in Ids} \cup {Other}
    ELSE LET S == Exprs(d - 1)
         IN  S \cup {Attribute(e, a) : e \in S, a \in Attrs} \cup {Call(e, 2) : e \in S}

SrcCallee(e) == Source(Module(<<FunctionDef("foo", 1, <<Stmt(Call(e, 2))>>, <<>>)>>))

\* "@e" above "def foo(): pass"
SrcDecorated(e) == Source(Module(<<FunctionDef("foo", 2, <<Stmt(Other)>>, <<e>>)>>))

InitExpr ==
    /\ root = "dir"
    /\ fs \in {{File(<<>>, "a", "py", src)} :
                 src \in {SrcCallee(e) : e \in Exprs(MaxDepth)}
                             \cup {SrcDecorated(e) : e \in Exprs(MaxDepth)}}
    /\ pc = "start"
    /\ stack = <<>>
    /\ results = <<>>
    /\ function_locations = EmptyDict
    /\ edges = <<>>
    /\ repo_data = EmptyDict
    /\ run = 0
    /\ prev = EmptyDict
    /\ clone_result = EmptyDict
    /\ diagram = NoDiagram
    /\ docs = <<>>

SpecExpr == InitExpr /\ [][Next]_vars

----------------------------------------------------------------------------
(* make_function_call_graph called on its own, with any list of edges *)

EdgeNames == {"foo", "bar", "run"}

EdgeLists(n) == UNION {[1..k -> EdgeNames \X EdgeNames] : k \in 0..n}

InitDiagram ==
    /\ root = "dir"
    /\ fs = {}
    /\ pc = "diagram"
    /\ stack = <<>>
    /\ results = <<>>
    /\ function_locations = EmptyDict
    /\ edges \in EdgeLists(MaxEdges)
    /\ repo_data = EmptyDict
    /\ run = 0
    /\ prev = EmptyDict
    /\ clone_result = EmptyDict
    /\ diagram = NoDiagram
    /\ docs = <<>>

\* result = make_function_call_graph(edges, output_path, title)
DrawDiagram ==
    /\ pc = "diagram"
    /\ \E rendered \in BOOLEAN :
          diagram' = make_function_call_graph(edges, "/tmp/test_call_graph", rendered)
    /\ pc' = "drawn"
    /\ UNCHANGED <<root, fs, stack, results, function_locations, edges, repo_data, run, prev,
                   clone_result, docs>>

NextDiagram == DrawDiagram

SpecDiagram == InitDiagram /\ [][NextDiagram]_vars

----------------------------------------------------------------------------
(* What the tree contains, read off the tree itself *)

\* all nodes of a syntax tree, depth first, each occurrence once
RECURSIVE AllNodes(_)
RECURSIVE AllNodesOfSeq(_)
AllNodes(node) == <<node>> \o AllNodesOfSeq(iter_child_nodes(node))
AllNodesOfSeq(nodes) ==
    IF nodes = <<>> THEN <<>> ELSE AllNodes(Head(nodes)) \o AllNodesOfSeq(Tail(nodes))

Range(s) == {s[i] : i \in 1..Len(s)}

Count(s, x) == Cardinality({i \in 1..Len(s) : s[i] = x})

PathOf(f) == Append(f.dir, filename(f))

\* the source files the walker has to deliver
SourceFiles == {f \in fs : f.ext = "py" /\ \A i \in 1..Len(f.dir) : f.dir[i] \notin ignore_dirs}

GoodFiles == {f \in SourceFiles : f.src.kind = "source"}

FunctionDefsOf(f) == SelectSeq(AllNodes(f.src.tree), LAMBDA n : n.kind = "FunctionDef")

CallsOf(node) == SelectSeq(AllNodes(node), LAMBDA n : n.kind = "Call")

\* the call sites inside the body of a function declaration
CallsInBody(F) == SelectSeq(AllNodesOfSeq(F.body), LAMBDA n : n.kind = "Call")

DeclaredNames == UNION {{F.name : F \in Range(FunctionDefsOf(f))} : f \in GoodFiles}

Finished == pc = "done"

----------------------------------------------------------------------------
(* Claims about build_call_graph *)

ExampleTree == {File(<<>>, "a", "py", SrcExample)}

\* C1: an edge (F, g) exists only for a call site of g that lies inside the
\* body of a function F; for the one file declaring foo (calling bar once)
\* and bar (calling nothing) the edge list is exactly foo -> bar.
C1_EnclosingFunctionOnly ==
    Finished =>
        /\ \A i \in 1..Len(edges) :
              \E f \in GoodFiles : \E F \in Range(FunctionDefsOf(f)) :
                  /\ F.name = edges[i][1]
                  /\ \E c \in Range(CallsInBody(F)) : get_name_from_node(c.func) = edges[i][2]
        /\ fs = ExampleTree => edges = << <<"foo", "bar">> >>

CalleeNamesOf(f) == MapSeq(CallsOf(f.src.tree), LAMBDA c : get_name_from_node(c.func))

FunctionNamesOf(f) == MapSeq(FunctionDefsOf(f), LAMBDA F : F.name)

AllCalleeNames == UNION {Range(CalleeNamesOf(f)) : f \in GoodFiles}

C3_CalleeIsDeclared ==
    Finished => \A i \in 1..Len(edges) :
        /\ edges[i][2] \in DOMAIN function_locations
        /\ edges[i][2] \in DeclaredNames

\* a parsed file calls a name nobody declares, and edges were produced
C3_Witness ==
    /\ Finished
    /\ edges # <<>>
    /\ \E f \in GoodFiles : \E n \in Range(CalleeNamesOf(f)) : n # "" /\ n \notin DeclaredNames

----------------------------------------------------------------------------
(* Claims about scan_repo_for_python and parse_python_file *)

Scanned == pc \in {"scanned", "done"}

SameItems(s, t) == Len(s) = Len(t) /\ \A x \in Range(s) \cup Range(t) : Count(s, x) = Count(t, x)

\* C4: every source file has an entry; a file that fails has success = FALSE
\* and an error message; every other file has success = TRUE and its own
\* declarations, which reach the index, as its calls reach the edge list.
C4_FaultIsolation ==
    Scanned =>
        /\ dict_keys(results) = {PathOf(f) : f \in SourceFiles}
        /\ \A f \in SourceFiles :
              LET entry == dict_get(results, PathOf(f))
              IN  IF f.src.kind = "source"
                  THEN /\ entry.success
                       /\ SameItems(MapSeq(entry.functions, LAMBDA e : <<e.name, e.lineno>>),
                                    MapSeq(FunctionDefsOf(f), LAMBDA F : <<F.name, F.lineno>>))
                  ELSE /\ ~entry.success
                       /\ DOMAIN entry = {"success", "error"}
                       /\ entry.error # ""
        /\ Finished =>
              \A f \in GoodFiles :
                  /\ Range(FunctionNamesOf(f)) \subseteq DOMAIN function_locations
                  /\ \A c \in Range(FunctionNamesOf(f)), g \in Range(CalleeNamesOf(f)) :
                        g \in DeclaredNames => <<c, g>> \in Range(edges)

\* a file that does not parse next to files that yield edges
C4_Witness ==
    /\ Finished
    /\ SourceFiles \ GoodFiles # {}
    /\ Cardinality(GoodFiles) >= 2
    /\ edges # <<>>

Declarations(name) ==
    UNION {{<<PathOf(f), F.lineno>> : F \in {G \in Range(FunctionDefsOf(f)) : G.name = name}} :
           f \in GoodFiles}

\* the entries the index holds under a name: the one file path stored there
IndexEntries(name) ==
    IF name \in DOMAIN function_locations THEN {function_locations[name]} ELSE {}

\* C5: a name declared at k distinct (file, line) locations has k entries
\* in the index.
C5_IndexKeepsEveryDeclaration ==
    Finished => \A n \in DeclaredNames :
        Cardinality(IndexEntries(n)) = Cardinality(Declarations(n))

SameDict(d, e) ==
    /\ dict_keys(d) = dict_keys(e)
    /\ \A k \in dict_keys(d) : dict_get(d, k) = dict_get(e, k)

\* C6: a second run over the same tree, whatever order the directories are
\* listed in, yields the per-file output and the edge list of the first run,
\* edge order included.
C6_SameOutputEveryRun ==
    (Finished /\ run >= 2) =>
        /\ SameDict(repo_data["parse_results"], prev["parse_results"])
        /\ repo_data["call_graph"] = prev["call_graph"]

\* alphabetical rank of the function names of the trees above
NameRank == ("Job" :> 1) @@ ("bar" :> 2) @@ ("foo" :> 3) @@ ("run" :> 4)

PairLeq(e1, e2) ==
    \/ NameRank[e1[1]] < NameRank[e2[1]]
    \/ NameRank[e1[1]] = NameRank[e2[1]] /\ NameRank[e1[2]] <= NameRank[e2[2]]

\* C7: the edge list is sorted by caller name, then callee name.
C7_EdgesSorted ==
    Finished => \A i \in 1..(Len(edges) - 1) : PairLeq(edges[i], edges[i + 1])

\* the name a callee expression resolves to, as a list of segments (empty:
\* it does not resolve)
RECURSIVE Resolve(_)
Resolve(e) ==
    CASE e.kind = "Name"      -> <<e.id>>
      [] e.kind = "Attribute" -> IF Resolve(e.value) # <<>>
                                 THEN Append(Resolve(e.value), e.attr)
                                 ELSE <<e.attr>>
      [] e.kind = "Call"      -> Resolve(e.func)
      [] OTHER                -> <<>>

RECURSIVE Dotted(_)
Dotted(segs) ==
    IF Len(segs) = 1 THEN segs[1]
    ELSE Dotted(SubSeq(segs, 1, Len(segs) - 1)) \o "." \o segs[Len(segs)]

ResolvedSitesOf(f) == SelectSeq(CallsOf(f.src.tree), LAMBDA c : Resolve(c.func) # <<>>)

OneFile(src) == {File(<<>>, "a", "py", src)}

\* C8: the call list of a parsed file holds, for every call whose callee
\* resolves under the recursive rule, the dotted name the rule gives, and
\* nothing for a call whose callee does not resolve; obj.method() is recorded
\* as "obj.method" and both calls of foo()() as "foo".
C8_DottedNameRule ==
    Scanned =>
        /\ \A f \in GoodFiles :
              SameItems(dict_get(results, PathOf(f)).calls,
                        MapSeq(ResolvedSitesOf(f),
                               LAMBDA c : [func |-> Dotted(Resolve(c.func)), lineno |-> c.lineno]))
        /\ fs = OneFile(SrcCallee(Attribute(Name("obj"), "method"))) =>
              results[1].value.calls = <<[func |-> "obj.method", lineno |-> 2]>>
        /\ fs = OneFile(SrcCallee(Call(Name("foo"), 2))) =>
              results[1].value.calls = <<[func |-> "foo", lineno |-> 2], [func |-> "foo", lineno |-> 2]>>
        /\ fs = OneFile(SrcCallee(Attribute(Other, "foo"))) =>
              results[1].value.calls = <<[func |-> "foo", lineno |-> 2]>>
        /\ fs = OneFile(SrcCallee(Other)) => results[1].value.calls = <<>>

\* the callee is a call of a call of an attribute access, and it was recorded
C8_Witness ==
    /\ Scanned
    /\ fs = OneFile(SrcCallee(Call(Call(Attribute(Name("obj"), "method"), 2), 2)))
    /\ Len(results[1].value.calls) = 3

\* C9: with a root that is missing or not a directory the pipeline does not
\* get past the walker: no scan result is returned and nothing is built.
C9_MissingRootStopsPipeline ==
    root # "dir" => (pc \notin {"scanned", "done"} /\ "parse_results" \notin DOMAIN repo_data)

\* C10: no file outside the source files is ever scanned, no file is scanned
\* twice, and when the walk is over every source file has been scanned.
C10_WalkerResult ==
    /\ dict_keys(results) \subseteq {PathOf(f) : f \in SourceFiles}
    /\ \A i, j \in 1..Len(results) : results[i].key = results[j].key => i = j
    /\ Scanned => dict_keys(results) = {PathOf(f) : f \in SourceFiles}

\* the tree holds a Python file two levels below an ignored directory, a
\* file that is not Python, and a source file, and the walk is over
C10_Witness ==
    /\ Scanned
    /\ results # <<>>
    /\ \E f \in fs : f.ext # "py"
    /\ \E f \in fs : f.ext = "py" /\ Len(f.dir) = 2 /\ f.dir[1] \in ignore_dirs

----------------------------------------------------------------------------
\* the relative paths of the source files of the trees above, in
\* lexicographic order
path_order == << <<"a.py">>, <<"b.py">>, <<"pkg", "c.py">> >>

PathRank(p) == CHOOSE i \in 1..Len(path_order) : path_order[i] = p

\* C11: the keys of the per-file result map, in the order scan_repo_for_python
\* produces them, are sorted by relative path, whatever order the file system
\* lists the entries of a directory in.
C11_KeysInPathOrder ==
    \A i, j \in 1..Len(results) :
        i < j => PathRank(results[i].key) < PathRank(results[j].key)

----------------------------------------------------------------------------
\* every source file of the tree has its final parse outcome
AllFilesParsed ==
    /\ stack = <<>>
    /\ dict_keys(results) = {PathOf(f) : f \in SourceFiles}
    /\ \A i \in 1..Len(results) : "success" \in DOMAIN results[i].value

\* C12: the symbol index and the call graph are built only after every source
\* file of the tree has a final parse outcome: whenever an index entry or an
\* edge exists, or analyze_code has set call_graph, the walk is over, the
\* result map holds an outcome for every source file and it is that map the
\* index and the edges were computed from.
C12_Barrier ==
    (function_locations # EmptyDict \/ edges # <<>> \/ pc \in {"done", "returned"}) =>
        /\ AllFilesParsed
        /\ repo_data["parse_results"] = results
        /\ function_locations = build_function_locations(EmptyDict, results)
        /\ edges = build_edges(<<>>, results, function_locations)

\* the call graph has been built for a tree with three source files, one of
\* them a failure, that took more than one step of the walk, and it has edges
C12_Witness ==
    /\ pc = "done"
    /\ Cardinality(SourceFiles) = 3
    /\ \E f \in SourceFiles : f.dir # <<>>
    /\ SourceFiles # GoodFiles
    /\ edges # <<>>

----------------------------------------------------------------------------
ClassDefsOf(f) == SelectSeq(AllNodes(f.src.tree), LAMBDA n : n.kind = "ClassDef")

\* the names declared as a class and never as a function
ClassOnlyNames ==
    UNION {{C.name : C \in Range(ClassDefsOf(f))} : f \in GoodFiles} \ DeclaredNames

\* C13: the index is built only from the function declarations of the files
\* that parsed: its keys are exactly the names of those declarations, each
\* stored with a file that parsed and declares it; every caller of an edge is
\* declared in a file that parsed; and a name declared only as a class is not
\* a key and is the callee of no edge.
C13_IndexFromParsedFunctionsOnly ==
    Finished =>
        LET callers == UNION {Range(FunctionNamesOf(f)) : f \in GoodFiles}
            es == Range(edges)
        IN  /\ DOMAIN function_locations = DeclaredNames
            /\ \A name \in DOMAIN function_locations :
                   \E f \in GoodFiles : /\ PathOf(f) = function_locations[name]
                                        /\ name \in Range(FunctionNamesOf(f))
            /\ \A e \in es : e[1] \in callers
            /\ \A name \in ClassOnlyNames :
                   /\ name \notin DOMAIN function_locations
                   /\ \A e \in es : e[2] # name

\* the call graph has been built, with edges, for a tree in which one file
\* failed to parse and another calls a name that is declared only as a class
C13_Witness ==
    /\ pc = "done"
    /\ SourceFiles # GoodFiles
    /\ \E name \in ClassOnlyNames : name \in AllCalleeNames
    /\ edges # <<>>

----------------------------------------------------------------------------
\* the files that parsed and declare a function of this name
DeclaringFiles(name) == {f \in GoodFiles : name \in Range(FunctionNamesOf(f))}

\* C14: resolution is by bare name across the whole repository: a function
\* declared in a file and a call recorded in that file give an edge if and
\* only if the callee name is declared as a function in some file that parsed,
\* whichever file that is and however many files declare it.
C14_BareNameResolution ==
    Finished =>
        LET es == Range(edges)
            declared == {g \in AllCalleeNames : DeclaringFiles(g) # {}}
        IN  \A f \in GoodFiles :
                \A c \in Range(FunctionNamesOf(f)), g \in Range(CalleeNamesOf(f)) :
                    (<<c, g>> \in es) <=> (g \in declared)

\* an edge foo -> bar exists although no file that calls bar declares it
C14_Witness ==
    /\ pc = "done"
    /\ <<"foo", "bar">> \in Range(edges)
    /\ \A f \in GoodFiles : "bar" \in Range(CalleeNamesOf(f)) => f \notin DeclaringFiles("bar")

----------------------------------------------------------------------------
SuccessShape(data) ==
    /\ data.success = TRUE
    /\ {"functions", "classes", "imports"} \subseteq DOMAIN data
    /\ "error" \notin DOMAIN data

FailureShape(data) ==
    /\ data.success = FALSE
    /\ "error" \in DOMAIN data
    /\ DOMAIN data \cap {"functions", "classes", "imports"} = {}

\* the per-file output map: results while the walk goes on, parse_results
\* once it has been stored
OutputMaps ==
    {results} \cup (IF "parse_results" \in DOMAIN repo_data THEN {repo_data["parse_results"]} ELSE {})

\* C15: every entry of the per-file output map has a success field and one
\* of two shapes: success with the lists functions, classes and imports and no
\* error, or failure with an error and none of the lists.
C15_EntryShapes ==
    \A m \in OutputMaps : \A i \in 1..Len(m) :
        /\ "success" \in DOMAIN m[i].value
        /\ SuccessShape(m[i].value) \/ FailureShape(m[i].value)
        /\ ~(SuccessShape(m[i].value) /\ FailureShape(m[i].value))

\* the stored map holds a file that parsed, one that is not Python text and
\* one that could not be read
C15_Witness ==
    /\ "parse_results" \in DOMAIN repo_data
    /\ \E i, j, k \in 1..Len(repo_data["parse_results"]) :
          LET m == repo_data["parse_results"]
          IN  /\ m[i].value.success
              /\ ~m[j].value.success /\ ~m[k].value.success
              /\ m[j].value.error # m[k].value.error

----------------------------------------------------------------------------
\* the name the dotted-name rule gives an expression, "" if it gives none
ResolvedName(e) == IF Resolve(e) = <<>> THEN "" ELSE Dotted(Resolve(e))

\* C16: the decorators list of a function holds, for every decorator
\* expression, the name the callee dotted-name rule gives that expression; a
\* decorator written a.b is recorded as "a.b". (str(node), which the code
\* falls back to, is written here without its memory address.)
C16_DecoratorsByDottedRule ==
    Scanned =>
        \A f \in GoodFiles : \A F \in Range(FunctionDefsOf(f)) :
            \E entry \in Range(dict_get(results, PathOf(f)).functions) :
                /\ entry.name = F.name
                /\ entry.lineno = F.lineno
                /\ entry.decorators = MapSeq(F.decorator_list, ResolvedName)

----------------------------------------------------------------------------
\* C17: build_call_graph leaves the parse-result map as it was: the same
\* keys in the same order, each with the same entry; and generating the
\* diagram and the report leaves the edge list they are handed as it was.
C17_Frame ==
    [][/\ (pc = "scanned" /\ pc' = "done") =>
              /\ results' = results
              /\ repo_data'["parse_results"] = repo_data["parse_results"]
              /\ repo_data'["parse_results"] = results
       /\ (pc = "done" /\ pc' = "returned") =>
              /\ edges' = edges
              /\ repo_data'["call_graph"] = repo_data["call_graph"]
              /\ repo_data'["call_graph"] = edges
              /\ repo_data'["parse_results"] = repo_data["parse_results"]]_vars

\* the report has been written and the diagram drawn for a map that holds a
\* failure and for an edge list with a repeated pair
C17_Witness ==
    /\ pc = "returned"
    /\ \E i \in 1..Len(results) : ~results[i].value.success
    /\ \E i, j \in 1..Len(edges) : i # j /\ edges[i] = edges[j]
    /\ diagram.result.success
    /\ repo_data["call_graph"] = edges

----------------------------------------------------------------------------
\* the call sites of a file whose callee resolves to a name with a dot in it
DottedSitesOf(f) == SelectSeq(CallsOf(f.src.tree), LAMBDA c : Len(Resolve(c.func)) >= 2)

\* C18: for every edge, caller and callee are names of functions declared
\* in files that parsed, and some file that parsed declares the caller and
\* holds a call site whose callee resolves to the callee's bare name; so a
\* callee that resolves to a dotted name, like self.bar, is in no edge.
C18_EdgeClosure ==
    Finished =>
        LET es == Range(edges)
            declared == DeclaredNames
            \* (caller, callee) for the functions and the bare-name call sites of a file
            sites == UNION {Range(FunctionNamesOf(f))
                                \X {Resolve(c.func)[1] : c \in {d \in Range(CallsOf(f.src.tree)) :
                                                                   Len(Resolve(d.func)) = 1}} :
                            f \in GoodFiles}
            dotted == UNION {{Dotted(Resolve(c.func)) : c \in Range(DottedSitesOf(f))} :
                             f \in GoodFiles}
        IN  \A e \in es :
                /\ e[1] \in declared
                /\ e[2] \in declared
                /\ e \in sites
                /\ e[2] \notin dotted

\* edges were built for a tree in which self.bar() is called and bar is a
\* declared function
C18_Witness ==
    /\ pc = "done"
    /\ edges # <<>>
    /\ "bar" \in DeclaredNames
    /\ \E f \in GoodFiles : \E c \in Range(DottedSitesOf(f)) : Resolve(c.func) = <<"self", "bar">>

----------------------------------------------------------------------------
\* the call sites of a file whose callee name is a key of the index
IndexedSitesOf(f) ==
    SelectSeq(ResolvedSitesOf(f), LAMBDA c : Dotted(Resolve(c.func)) \in DOMAIN function_locations)

RECURSIVE EdgesExpected(_)
EdgesExpected(files) ==
    IF files = {} THEN 0
    ELSE LET f == CHOOSE x \in files : TRUE
         IN  Len(FunctionDefsOf(f)) * Len(IndexedSitesOf(f)) + EdgesExpected(files \ {f})

\* C19: the length of the edge list is the sum, over the files that parsed,
\* of the number of function declarations of the file times the number of its
\* call sites whose callee name is a key of the index; a file that failed
\* adds nothing.
C19_EdgeCount ==
    Finished => Len(edges) = EdgesExpected(GoodFiles)

\* edges came from two files, one of them with two functions and two
\* indexed call sites, and a third file failed
C19_Witness ==
    /\ pc = "done"
    /\ SourceFiles # GoodFiles
    /\ \E f, g \in GoodFiles :
          /\ f # g
          /\ Len(FunctionDefsOf(f)) = 2 /\ Len(IndexedSitesOf(f)) = 2
          /\ Len(FunctionDefsOf(g)) >= 1 /\ Len(IndexedSitesOf(g)) >= 1
          /\ Len(edges) = 4 + Len(FunctionDefsOf(g)) * Len(IndexedSitesOf(g))

----------------------------------------------------------------------------
\* the positions of run in the order it passes them, and the keys the step
\* that leads to each position sets in repo_data
RunOrder == <<"start", "cloned", "mapped", "readme", "walk", "scanned", "done", "returned">>

KeysSetAt(position) ==
    CASE position = "cloned"   -> {"path", "name"}
      [] position = "mapped"   -> {"file_tree"}
      [] position = "readme"   -> {"readme_summary"}
      [] position = "scanned"  -> {"parse_results"}
      [] position = "done"     -> {"call_graph"}
      [] position = "returned" -> {"docs_path"}
      [] OTHER                 -> {}

RunKeys ==
    {"path", "name", "file_tree", "readme_summary", "parse_results", "call_graph", "docs_path"}

HasReadme == \E f \in files_of(fs, <<>>) : filename(f) \in Range(readme_names)

\* run was called on this object
RunCalled == clone_result # EmptyDict

RunState ==
    /\ pc = "failed" => /\ RunCalled
                        /\ ~clone_result.success
                        /\ run = 0 => repo_data = EmptyDict
    /\ (RunCalled /\ pc # "failed") => clone_result.success
    /\ pc = "returned" => RunKeys \subseteq DOMAIN repo_data
    /\ (RunCalled /\ "readme_summary" \in DOMAIN repo_data /\ ~HasReadme) =>
           repo_data["readme_summary"] = "No README found"
    /\ (RunCalled /\ run = 0) =>
           \E i \in 1..Len(RunOrder) :
               /\ pc \in {RunOrder[i], "failed"}
               /\ pc = RunOrder[i] =>
                      DOMAIN repo_data = UNION {KeysSetAt(RunOrder[j]) : j \in 1..i}

RunStep ==
    /\ pc' # pc =>
          \/ pc = "idle" /\ pc' = "walk"
          \/ pc \in {"start", "returned"} /\ pc' \in {"cloned", "failed"}
          \/ \E i \in 2..(Len(RunOrder) - 1) : pc = RunOrder[i] /\ pc' = RunOrder[i + 1]
    /\ pc' # pc => DOMAIN repo_data' = DOMAIN repo_data \cup KeysSetAt(pc')
    /\ pc' = pc => DOMAIN repo_data' = DOMAIN repo_data
    /\ pc' = "failed" => repo_data' = repo_data
    /\ pc = "failed" => UNCHANGED vars

\* C20: run takes its steps in the order clone, map file tree, analyze
\* README, analyze code, generate documentation, each step setting its keys of
\* repo_data; after a failed clone run is over and repo_data is as it was,
\* without any key if this was the first run; when run has returned True
\* repo_data holds path, name, file_tree, readme_summary, parse_results,
\* call_graph and docs_path; and without a README readme_summary is the
\* fallback text and the run goes on.
C20_StepOrder == []RunState /\ [][RunStep]_vars

\* a first run without a README returned True with the fallback text, and
\* the clone of the second run failed
C20_Witness ==
    /\ pc = "failed"
    /\ run = 1
    /\ ~HasReadme
    /\ RunKeys \subseteq DOMAIN repo_data
    /\ repo_data["readme_summary"] = "No README found"
    /\ docs # <<>>

----------------------------------------------------------------------------
\* make_function_call_graph was called in this call of run
DiagramAttempted == diagram # NoDiagram

\* the report holds the call-graph section with its reference to the picture
HasCallGraphSection ==
    \E i \in 1..(Len(docs) - 1) :
        /\ docs[i] = "## Function Call Graph"
        /\ docs[i + 1] = "![Call Graph](call_graph.png)"

\* C21: when generate_documentation has returned, the diagram was attempted
\* if and only if the call graph is not empty, the report holds the
\* call-graph section if and only if the call graph is not empty, and the
\* report is written and docs_path set whether the rendering succeeded,
\* failed or was not attempted; a failure is the value returned, with
\* success = FALSE and an error.
C21_DocumentationGenerated ==
    pc = "returned" =>
        /\ DiagramAttempted <=> repo_data["call_graph"] # <<>>
        /\ HasCallGraphSection <=> repo_data["call_graph"] # <<>>
        /\ "![Call Graph](call_graph.png)" \in Range(docs) <=> repo_data["call_graph"] # <<>>
        /\ docs = build_markdown(repo_data)
        /\ docs # <<>>
        /\ "docs_path" \in DOMAIN repo_data
        /\ repo_data["docs_path"] = "./outputs/" \o repo_data["name"] \o "/docs.md"
        /\ (DiagramAttempted /\ ~diagram.result.success) =>
               /\ DOMAIN diagram.result = {"success", "error"}
               /\ diagram.result.error # ""

\* the rendering of a call graph with edges failed, and the report with its
\* call-graph section was written all the same
C21_Witness ==
    /\ pc = "returned"
    /\ repo_data["call_graph"] # <<>>
    /\ DiagramAttempted
    /\ ~diagram.result.success
    /\ HasCallGraphSection
    /\ "docs_path" \in DOMAIN repo_data

----------------------------------------------------------------------------
\* the names that occur in a list of edges
NamesIn(es) == {es[i][1] : i \in 1..Len(es)} \cup {es[i][2] : i \in 1..Len(es)}

\* C22: for any list of (caller, callee) pairs, make_function_call_graph
\* draws one node for every distinct name and one edge for every distinct
\* pair; the label of an edge is the number of times its pair occurs in the
\* list if that is more than 1 and empty if it is 1; and the summary returned
\* gives the number of distinct names as nodes and the length of the list,
\* repeated pairs counted, as edges.
C22_DiagramAggregation ==
    pc = "drawn" =>
        LET drawn == diagram.dot_edges
            nodes == diagram.dot_nodes
        IN  /\ Range(nodes) = NamesIn(edges)
            /\ \A i, j \in 1..Len(nodes) : nodes[i] = nodes[j] => i = j
            /\ {<<drawn[i].caller, drawn[i].callee>> : i \in 1..Len(drawn)} = Range(edges)
            /\ \A i, j \in 1..Len(drawn) :
                  (drawn[i].caller = drawn[j].caller /\ drawn[i].callee = drawn[j].callee) => i = j
            /\ \A i \in 1..Len(drawn) :
                  LET n == Count(edges, <<drawn[i].caller, drawn[i].callee>>)
                  IN  drawn[i].label = (IF n > 1 THEN ToString(n) ELSE "")
            /\ diagram.result.success =>
                  /\ diagram.result.nodes = Cardinality(NamesIn(edges))
                  /\ diagram.result.edges = Len(edges)

\* a list of three edges in which one pair occurs twice and another once was
\* drawn and rendered: two edges drawn, three reported
C22_Witness ==
    /\ pc = "drawn"
    /\ diagram.result.success
    /\ Len(edges) = 3
    /\ Len(diagram.dot_edges) = 2
    /\ diagram.result.edges = 3
    /\ \E i, j \in 1..2 : diagram.dot_edges[i].label = "2" /\ diagram.dot_edges[j].label = ""

=============================================================================
